---- MODULE Spec2Model ----
(***************************************************************************)
(* Roster and party state machine of App.tsx: the React state of the App   *)
(* component (knights, clients, parties, the two selections, the party id  *)
(* counter, the pending edit / delete items, the exported text, the last   *)
(* alert) and one action per event handler.  Text is a sequence of         *)
(* one-character strings, so that split, trim, parseInt and the template   *)
(* string of the export are computed as the code computes them.            *)
(***************************************************************************)
EXTENDS Integers, Sequences, FiniteSets, TLC

VARIABLES knights, clients, parties, selectedKnightIds, selectedClientIds,
          partyIdCounter, itemToDelete, itemToEdit, exportedKnightData,
          alertMessage, clock, opened

vars == <<knights, clients, parties, selectedKnightIds, selectedClientIds,
          partyIdCounter, itemToDelete, itemToEdit, exportedKnightData,
          alertMessage, clock, opened>>

(* ------------------------------ bounds -------------------------------- *)
\* most Knights / Clients the roster holds at once
MaxKnights == 2
MaxClients == 2
\* most Knights the roster holds at once in the import / export runs
MaxRoster == 2
\* last reading of Date.now() the model lets the clock reach
MaxClock == 2
\* last party id handleCreateParty may hand out
MaxPartyId == 2
\* most edit / delete dialogs a run opens (opened counts them)
MaxOpened == 1
\* most Knights and most Clients in the export runs
MaxExportKnights == 3
MaxExportClients == 1
\* most Knights / Clients, and most dialogs opened, in the dialog runs
MaxDialogRoster == 1
MaxDialogs == 2

(* ------------------------------- text --------------------------------- *)
\* null of a nullable piece of React state
Null == [null |-> TRUE]
\* parseInt's results: NaN, or a number
NaN == [isNaN |-> TRUE, value |-> 0]
Num(n) == [isNaN |-> FALSE, value |-> n]

\* the white space String.prototype.trim and parseInt strip (of the alphabet used)
WhiteSpace == {" ", "\n"}
DigitChars == <<"0", "1", "2", "3", "4", "5", "6", "7", "8", "9">>
IsDigit(c) == \E i \in 1..10 : DigitChars[i] = c
DigitVal(c) == (CHOOSE i \in 1..10 : DigitChars[i] = c) - 1

\* Array.prototype.includes / filter / map on sequences
Includes(s, x) == \E i \in 1..Len(s) : s[i] = x
Filter(s, Keep(_)) == SelectSeq(s, Keep)
Map(s, F(_)) == [i \in 1..Len(s) |-> F(s[i])]

RECURSIVE TrimStart(_)
TrimStart(s) ==
    IF s # <<>> /\ Head(s) \in WhiteSpace THEN TrimStart(Tail(s)) ELSE s

RECURSIVE TrimEnd(_)
TrimEnd(s) ==
    IF s # <<>> /\ s[Len(s)] \in WhiteSpace
    THEN TrimEnd(SubSeq(s, 1, Len(s) - 1)) ELSE s

\* String.prototype.trim
Trim(s) == TrimEnd(TrimStart(s))

\* String.prototype.split(sep): always at least one piece
RECURSIVE SplitFrom(_, _, _)
SplitFrom(s, sep, cur) ==
    IF s = <<>> THEN <<cur>>
    ELSE IF Head(s) = sep THEN <<cur>> \o SplitFrom(Tail(s), sep, <<>>)
    ELSE SplitFrom(Tail(s), sep, Append(cur, Head(s)))

Split(s, sep) == SplitFrom(s, sep, <<>>)

\* Array.prototype.join(sep)
RECURSIVE Join(_, _)
Join(ss, sep) ==
    IF ss = <<>> THEN <<>>
    ELSE IF Len(ss) = 1 THEN ss[1]
    ELSE ss[1] \o <<sep>> \o Join(Tail(ss), sep)

\* the longest prefix of decimal digits, as a number (acc carries the value)
RECURSIVE DigitsValue(_, _)
DigitsValue(s, acc) ==
    IF s # <<>> /\ IsDigit(Head(s))
    THEN DigitsValue(Tail(s), acc * 10 + DigitVal(Head(s))) ELSE acc

\* parseInt(str, 10): leading white space skipped, an optional sign, then the
\* longest run of digits; whatever follows is ignored; no digit gives NaN
ParseInt(str) ==
    LET s == TrimStart(str)
        neg == s # <<>> /\ Head(s) = "-"
        body == IF s # <<>> /\ Head(s) \in {"-", "+"} THEN Tail(s) ELSE s
    IN  IF body = <<>> \/ ~IsDigit(Head(body)) THEN NaN
        ELSE IF neg THEN Num(0 - DigitsValue(body, 0))
        ELSE Num(DigitsValue(body, 0))

\* `${n}` of an integer
RECURSIVE NatToStr(_)
NatToStr(n) ==
    IF n < 10 THEN <<DigitChars[n + 1]>>
    ELSE Append(NatToStr(n \div 10), DigitChars[(n % 10) + 1])

NumToStr(n) == IF n < 0 THEN <<"-">> \o NatToStr(0 - n) ELSE NatToStr(n)

(* ------------------------------ inputs -------------------------------- *)
\* what the add forms deliver: the text inputs are required, so a name or job is
\* never empty, but it may carry white space at its ends; the number input
\* delivers an integer (step 1)
KnightInputs == {[name |-> <<"a">>, job |-> <<"j">>, power |-> 1]}
ClientInputs == {[name |-> <<"c">>, job |-> <<"j">>, power |-> 1, notes |-> <<"n">>]}
\* what the edit form delivers: always name, job, power and notes
EditInputs == {[name |-> <<"e">>, job |-> <<"j">>, power |-> 2, notes |-> <<"m">>]}
\* the add form's inputs of the import / export runs
RosterInputs ==
    {[name |-> <<"a">>, job |-> <<"j">>, power |-> 1],
     [name |-> <<"a", " ">>, job |-> <<"j">>, power |-> 1]}

(* --------------------------- derived views ---------------------------- *)
StatusOrderOffDutyFirst(status) ==
    CASE status = "waiting" -> 1
      [] status = "in-party" -> 3
      [] status = "off-duty" -> 2

\* statusOrder of sortedKnights
StatusOrder(status) ==
    CASE status = "waiting" -> 1
      [] status = "in-party" -> 2
      [] status = "off-duty" -> 3

\* [...knights].sort((a, b) => statusOrder[a.status] - statusOrder[b.status]):
\* Array.prototype.sort is stable, so each rank keeps the roster's order
SortedBy(ks) ==
    LET Rank(r) == SelectSeq(ks, LAMBDA k : StatusOrder(k.status) = r)
    IN  Rank(1) \o Rank(2) \o Rank(3)

sortedKnights == SortedBy(knights)

\* knights.find(k => k.id === id): the first match, or undefined
HasId(s, id) == \E i \in 1..Len(s) : s[i].id = id
Find(s, id) == s[CHOOSE i \in 1..Len(s) : s[i].id = id /\ \A j \in 1..(i - 1) : s[j].id # id]

(* ------------------------------- Init --------------------------------- *)
Init ==
    /\ knights = <<>>
    /\ clients = <<>>
    /\ parties = <<>>
    /\ selectedKnightIds = <<>>
    /\ selectedClientIds = <<>>
    /\ partyIdCounter = 1
    /\ itemToDelete = Null
    /\ itemToEdit = Null
    /\ exportedKnightData = <<>>
    /\ alertMessage = [kind |-> "none"]
    /\ clock = 1
    /\ opened = 0

(* ------------------------------ actions ------------------------------- *)
\* Date.now() moves on between two events
Tick ==
    /\ clock < MaxClock
    /\ clock' = clock + 1
    /\ UNCHANGED <<knights, clients, parties, selectedKnightIds, selectedClientIds,
                   partyIdCounter, itemToDelete, itemToEdit, exportedKnightData,
                   alertMessage, opened>>

NewKnight(data, now) ==
    [id |-> now, name |-> data.name, job |-> data.job, power |-> data.power * 1000,
     relayCount |-> 0, status |-> "waiting"]

handleAddKnight(data) ==
    /\ knights' = Append(knights, NewKnight(data, clock))
    /\ UNCHANGED <<clients, parties, selectedKnightIds, selectedClientIds,
                   partyIdCounter, itemToDelete, itemToEdit, exportedKnightData,
                   alertMessage, clock, opened>>

NewClient(data, now) ==
    [id |-> now, name |-> data.name, job |-> data.job, power |-> data.power * 1000,
     notes |-> data.notes, status |-> "waiting"]

handleAddClient(data) ==
    /\ clients' = Append(clients, NewClient(data, clock))
    /\ UNCHANGED <<knights, parties, selectedKnightIds, selectedClientIds,
                   partyIdCounter, itemToDelete, itemToEdit, exportedKnightData,
                   alertMessage, clock, opened>>

\* { ...itemToEdit, ...updatedData, power: updatedData.power * 1000 }: the fields
\* of the item as it was when the edit was opened, overridden by the form's.
\* The form's notes, which the spread also copies onto a Knight, is read nowhere
\* on a Knight and is not carried
Spread(a, b) ==
    [f \in DOMAIN a |-> IF f \in DOMAIN b THEN b[f] ELSE a[f]]

UpdatedItem(item, updatedData) ==
    [Spread(item, updatedData) EXCEPT !.power = updatedData.power * 1000]

\* the edit button of a listed Knight or Client: setItemToEdit(knight)
openEdit(item) ==
    /\ opened' = opened + 1
    /\ itemToEdit' = item
    /\ UNCHANGED <<knights, clients, parties, selectedKnightIds, selectedClientIds,
                   partyIdCounter, itemToDelete, exportedKnightData, alertMessage,
                   clock>>

\* onCancel of the EditModal
cancelEdit ==
    /\ itemToEdit # Null
    /\ itemToEdit' = Null
    /\ UNCHANGED <<knights, clients, parties, selectedKnightIds, selectedClientIds,
                   partyIdCounter, itemToDelete, exportedKnightData, alertMessage,
                   clock, opened>>

handleUpdateItemUpsert(updatedData) ==
    /\ itemToEdit # Null
    /\ LET updatedItem == UpdatedItem(itemToEdit, updatedData)
           Put(s) == IF HasId(s, itemToEdit.id)
                     THEN [i \in 1..Len(s) |->
                              IF s[i].id = itemToEdit.id THEN updatedItem ELSE s[i]]
                     ELSE Append(s, updatedItem)
       IN  IF "relayCount" \in DOMAIN itemToEdit
           THEN knights' = Put(knights) /\ UNCHANGED clients
           ELSE clients' = Put(clients) /\ UNCHANGED knights
    /\ itemToEdit' = Null
    /\ UNCHANGED <<parties, selectedKnightIds, selectedClientIds, partyIdCounter,
                   itemToDelete, exportedKnightData, alertMessage, clock, opened>>

\* the EditModal's form always delivers name, job, power and notes
handleUpdateItem(updatedData) ==
    /\ itemToEdit # Null
    /\ LET updatedItem == UpdatedItem(itemToEdit, updatedData)
       IN  IF "relayCount" \in DOMAIN itemToEdit
           THEN /\ knights' = Map(knights, LAMBDA k :
                                  IF k.id = itemToEdit.id THEN updatedItem ELSE k)
                /\ UNCHANGED clients
           ELSE /\ clients' = Map(clients, LAMBDA c :
                                  IF c.id = itemToEdit.id THEN updatedItem ELSE c)
                /\ UNCHANGED knights
    /\ itemToEdit' = Null
    /\ UNCHANGED <<parties, selectedKnightIds, selectedClientIds, partyIdCounter,
                   itemToDelete, exportedKnightData, alertMessage, clock, opened>>

\* the delete button of a listed Knight or Client: setItemToDelete({type, id})
openDelete(type, id) ==
    /\ opened' = opened + 1
    /\ itemToDelete' = [type |-> type, id |-> id]
    /\ UNCHANGED <<knights, clients, parties, selectedKnightIds, selectedClientIds,
                   partyIdCounter, itemToEdit, exportedKnightData, alertMessage,
                   clock>>

\* onCancel of the DeletionModal
cancelDelete ==
    /\ itemToDelete # Null
    /\ itemToDelete' = Null
    /\ UNCHANGED <<knights, clients, parties, selectedKnightIds, selectedClientIds,
                   partyIdCounter, itemToEdit, exportedKnightData, alertMessage,
                   clock, opened>>

handleDeleteCascade ==
    /\ itemToDelete # Null
    /\ IF itemToDelete.type = "knight"
       THEN /\ knights' = Filter(knights, LAMBDA k : k.id # itemToDelete.id)
            /\ parties' = Filter(parties, LAMBDA p :
                              \A i \in 1..Len(p.knights) : p.knights[i].id # itemToDelete.id)
            /\ UNCHANGED clients
       ELSE /\ clients' = Filter(clients, LAMBDA c : c.id # itemToDelete.id)
            /\ parties' = Filter(parties, LAMBDA p :
                              \A i \in 1..Len(p.clients) : p.clients[i].id # itemToDelete.id)
            /\ UNCHANGED knights
    /\ itemToDelete' = Null
    /\ UNCHANGED <<selectedKnightIds, selectedClientIds, partyIdCounter,
                   itemToEdit, exportedKnightData, alertMessage, clock, opened>>

handleDelete ==
    /\ itemToDelete # Null
    /\ IF itemToDelete.type = "knight"
       THEN /\ knights' = Filter(knights, LAMBDA k : k.id # itemToDelete.id)
            /\ UNCHANGED clients
       ELSE /\ clients' = Filter(clients, LAMBDA c : c.id # itemToDelete.id)
            /\ UNCHANGED knights
    /\ itemToDelete' = Null
    /\ UNCHANGED <<parties, selectedKnightIds, selectedClientIds, partyIdCounter,
                   itemToEdit, exportedKnightData, alertMessage, clock, opened>>

\* prev.includes(id) ? prev.filter(i => i !== id) : [...prev, id]
Toggled(prev, id) ==
    IF Includes(prev, id) THEN Filter(prev, LAMBDA i : i # id) ELSE Append(prev, id)

\* the status guard of toggleSelection: found and not waiting
Blocked(s, id) == HasId(s, id) /\ Find(s, id).status # "waiting"

toggleSelection(id, type) ==
    /\ IF type = "knight"
       THEN /\ selectedKnightIds' =
                   IF Blocked(knights, id) THEN selectedKnightIds
                   ELSE Toggled(selectedKnightIds, id)
            /\ UNCHANGED selectedClientIds
       ELSE /\ selectedClientIds' =
                   IF Blocked(clients, id) THEN selectedClientIds
                   ELSE Toggled(selectedClientIds, id)
            /\ UNCHANGED selectedKnightIds
    /\ UNCHANGED <<knights, clients, parties, partyIdCounter, itemToDelete,
                   itemToEdit, exportedKnightData, alertMessage, clock, opened>>

\* knights.filter(k => selectedKnightIds.includes(k.id)): the snapshot of a party
PartyMembers(s, ids) == Filter(s, LAMBDA e : Includes(ids, e.id))

MarkFirstInParty(s, ids) ==
    [i \in 1..Len(s) |->
        IF Includes(ids, s[i].id) /\ \A j \in 1..(i - 1) : ~Includes(ids, s[j].id)
        THEN [s[i] EXCEPT !.status = "in-party"] ELSE s[i]]

\* prev.map(k => selectedKnightIds.includes(k.id) ? { ...k, status: 'in-party' } : k)
MarkInParty(s, ids) ==
    Map(s, LAMBDA e : IF Includes(ids, e.id) THEN [e EXCEPT !.status = "in-party"] ELSE e)

handleCreatePartyByLength ==
    IF Len(selectedKnightIds) = 0 \/ Len(selectedClientIds) = 0
    THEN /\ alertMessage' = [kind |-> "selectBoth"]
         /\ UNCHANGED <<knights, clients, parties, selectedKnightIds,
                        selectedClientIds, partyIdCounter, itemToDelete, itemToEdit,
                        exportedKnightData, clock, opened>>
    ELSE /\ LET newParty == [id |-> Len(parties) + 1,
                             knights |-> PartyMembers(knights, selectedKnightIds),
                             clients |-> PartyMembers(clients, selectedClientIds),
                             isCompleted |-> FALSE]
            IN  parties' = Append(parties, newParty)
         /\ knights' = MarkInParty(knights, selectedKnightIds)
         /\ clients' = MarkInParty(clients, selectedClientIds)
         /\ partyIdCounter' = partyIdCounter + 1
         /\ selectedKnightIds' = <<>>
         /\ selectedClientIds' = <<>>
         /\ UNCHANGED <<itemToDelete, itemToEdit, exportedKnightData, alertMessage,
                        clock, opened>>

handleCreateParty ==
    IF Len(selectedKnightIds) = 0 \/ Len(selectedClientIds) = 0
    THEN /\ alertMessage' = [kind |-> "selectBoth"]
         /\ UNCHANGED <<knights, clients, parties, selectedKnightIds,
                        selectedClientIds, partyIdCounter, itemToDelete, itemToEdit,
                        exportedKnightData, clock, opened>>
    ELSE /\ LET newParty == [id |-> partyIdCounter,
                             knights |-> PartyMembers(knights, selectedKnightIds),
                             clients |-> PartyMembers(clients, selectedClientIds),
                             isCompleted |-> FALSE]
            IN  parties' = Append(parties, newParty)
         /\ knights' = MarkInParty(knights, selectedKnightIds)
         /\ clients' = MarkInParty(clients, selectedClientIds)
         /\ partyIdCounter' = partyIdCounter + 1
         /\ selectedKnightIds' = <<>>
         /\ selectedClientIds' = <<>>
         /\ UNCHANGED <<itemToDelete, itemToEdit, exportedKnightData, alertMessage,
                        clock, opened>>

CompleteKnightsNoCount(ks, knightIds) ==
    Map(ks, LAMBDA k : IF Includes(knightIds, k.id)
                       THEN [k EXCEPT !.status = "waiting"] ELSE k)

\* knightIds.includes(k.id) ? { ...k, relayCount: k.relayCount + 1, status: 'waiting' } : k
CompleteKnights(ks, knightIds) ==
    Map(ks, LAMBDA k : IF Includes(knightIds, k.id)
                       THEN [k EXCEPT !.relayCount = k.relayCount + 1,
                                      !.status = "waiting"]
                       ELSE k)

\* clientIds.includes(c.id) ? { ...c, status: 'completed' } : c
CompleteClients(cs, clientIds) ==
    Map(cs, LAMBDA c : IF Includes(clientIds, c.id)
                       THEN [c EXCEPT !.status = "completed"] ELSE c)

RemovePartyKeep(ps, partyId) == ps

RemovePartyAll(ps, partyId) == <<>>

\* prevParties.filter(p => p.id !== partyId)
RemoveParty(ps, partyId) == Filter(ps, LAMBDA p : p.id # partyId)

handleCompleteMission(partyId) ==
    IF ~HasId(parties, partyId)
    THEN UNCHANGED vars
    ELSE LET partyToComplete == Find(parties, partyId)
             knightIds == Map(partyToComplete.knights, LAMBDA k : k.id)
             clientIds == Map(partyToComplete.clients, LAMBDA c : c.id)
         IN  /\ knights' = CompleteKnights(knights, knightIds)
             /\ clients' = CompleteClients(clients, clientIds)
             /\ parties' = RemoveParty(parties, partyId)
             /\ UNCHANGED <<selectedKnightIds, selectedClientIds, partyIdCounter,
                            itemToDelete, itemToEdit, exportedKnightData,
                            alertMessage, clock, opened>>

handleToggleKnightStatus(knightId) ==
    /\ knights' = Map(knights, LAMBDA k :
                      IF k.id = knightId /\ k.status = "waiting"
                      THEN [k EXCEPT !.status = "off-duty"]
                      ELSE IF k.id = knightId /\ k.status = "off-duty"
                      THEN [k EXCEPT !.status = "waiting"]
                      ELSE k)
    /\ UNCHANGED <<clients, parties, selectedKnightIds, selectedClientIds,
                   partyIdCounter, itemToDelete, itemToEdit, exportedKnightData,
                   alertMessage, clock, opened>>

ExportLineSwapped(k) ==
    k.name \o <<":">> \o k.job \o <<":">> \o NumToStr(k.relayCount) \o <<":">>
           \o NumToStr(k.power)

\* `${k.name}:${k.job}:${k.power}:${k.relayCount}`
ExportLine(k) ==
    k.name \o <<":">> \o k.job \o <<":">> \o NumToStr(k.power) \o <<":">>
           \o NumToStr(k.relayCount)

ExportText(ks) == Join(Map(SortedBy(ks), ExportLine), "\n")

handleExportKnights ==
    /\ exportedKnightData' = ExportText(knights)
    /\ UNCHANGED <<knights, clients, parties, selectedKnightIds, selectedClientIds,
                   partyIdCounter, itemToDelete, itemToEdit, alertMessage, clock, opened>>

\* the test of one line: parts.length === 4, name && job (before any trimming),
\* !isNaN(power) && !isNaN(relayCount)
LineAccepted(line) ==
    \E parts \in {Split(line, ":")} :
        /\ Len(parts) = 4
        /\ parts[1] # <<>>
        /\ parts[2] # <<>>
        /\ ~ParseInt(parts[3]).isNaN
        /\ ~ParseInt(parts[4]).isNaN

\* the Knight pushed for an accepted line; index counts every line, from 0
ImportedKnight(line, index, now) ==
    LET parts == Split(line, ":")
    IN  [id |-> now + index, name |-> Trim(parts[1]), job |-> Trim(parts[2]),
         power |-> ParseInt(parts[3]).value, relayCount |-> ParseInt(parts[4]).value,
         status |-> "off-duty"]

RECURSIVE ImportFromAbort(_, _, _)
ImportFromAbort(lines, i, now) ==
    IF i > Len(lines) THEN [newKnights |-> <<>>, invalidLines |-> 0]
    ELSE IF LineAccepted(lines[i])
    THEN LET rest == ImportFromAbort(lines, i + 1, now)
         IN  [rest EXCEPT !.newKnights =
                              <<ImportedKnight(lines[i], i - 1, now)>> \o @]
    ELSE [newKnights |-> <<>>, invalidLines |-> 1]

\* lines.forEach((line, index) => ...): newKnights and invalidLines after the
\* lines from position i on
RECURSIVE ImportFrom(_, _, _)
ImportFrom(lines, i, now) ==
    IF i > Len(lines) THEN [newKnights |-> <<>>, invalidLines |-> 0]
    ELSE LET rest == ImportFrom(lines, i + 1, now)
         IN  IF LineAccepted(lines[i])
             THEN [rest EXCEPT !.newKnights =
                                   <<ImportedKnight(lines[i], i - 1, now)>> \o @]
             ELSE [rest EXCEPT !.invalidLines = @ + 1]

\* data.trim().split('\n')
ImportLines(data) == Split(Trim(data), "\n")

handleImportKnights(data) ==
    IF Trim(data) = <<>>
    THEN /\ alertMessage' = [kind |-> "noData"]
         /\ UNCHANGED <<knights, clients, parties, selectedKnightIds,
                        selectedClientIds, partyIdCounter, itemToDelete, itemToEdit,
                        exportedKnightData, clock, opened>>
    ELSE \E res \in {ImportFrom(ImportLines(data), 1, clock)} :
             /\ knights' = knights \o res.newKnights
             /\ alertMessage' = [kind |-> "imported",
                                 imported |-> Len(res.newKnights),
                                 skipped |-> res.invalidLines]
             /\ UNCHANGED <<clients, parties, selectedKnightIds, selectedClientIds,
                            partyIdCounter, itemToDelete, itemToEdit,
                            exportedKnightData, clock, opened>>

\* texts pasted into the import modal
ImportTexts ==
    { <<"a", ":", "j", ":", "1", "0", "0", "0", ":", "0">> }

\* texts pasted into the import modal in the import / export runs
RosterTexts ==
    { <<"b", ":", "j", ":", "7", ":", "2">>,
      <<"\n", "b", ":", "j", ":", "7", ":", "0">>,
      <<"b", ":", " ", ":", "7", ":", "0">>,
      <<":", "j", ":", "7", ":", "0">>,
      <<"b", ":", "j", ":", "x", ":", "0", "\n", "B", "A", "D">>,
      <<"b", ":", "j", ":", "7", "x", ":", "0">>,
      <<"b", ":", "j", ":", "7", ":", "0", "\n", "B", "A", "D", "\n",
        "b", ":", "j", ":", "7", ":", "1">>,
      <<"b", ":", "j", ":", "7", ":", "-", "1">>,
      <<" ", "\n">> }

(* ----------------------------- behaviour ------------------------------ *)
KnightIds == {knights[i].id : i \in 1..Len(knights)}
ClientIds == {clients[i].id : i \in 1..Len(clients)}
PartyIds == 1..(MaxPartyId + 1)

\* the roster and party machine: every handler but the export; the bounds keep
\* the roster, the party ids and the clock finite
Next ==
    \/ Tick
    \/ \E data \in KnightInputs : Len(knights) < MaxKnights /\ handleAddKnight(data)
    \/ \E data \in ClientInputs : Len(clients) < MaxClients /\ handleAddClient(data)
    \/ \E i \in 1..Len(knights) : opened < MaxOpened /\ openEdit(knights[i])
    \/ \E i \in 1..Len(clients) : opened < MaxOpened /\ openEdit(clients[i])
    \/ cancelEdit
    \/ \E updatedData \in EditInputs : handleUpdateItem(updatedData)
    \/ \E id \in KnightIds : opened < MaxOpened /\ openDelete("knight", id)
    \/ \E id \in ClientIds : opened < MaxOpened /\ openDelete("client", id)
    \/ cancelDelete
    \/ handleDelete
    \/ \E id \in KnightIds : toggleSelection(id, "knight")
    \/ \E id \in ClientIds : toggleSelection(id, "client")
    \/ handleCreateParty /\ partyIdCounter' <= MaxPartyId + 1
    \/ \E partyId \in PartyIds : handleCompleteMission(partyId)
    \/ \E id \in KnightIds : handleToggleKnightStatus(id)
    \/ \E data \in ImportTexts :
          handleImportKnights(data) /\ Len(knights') <= MaxKnights

Spec == Init /\ [][Next]_vars

\* the roster's text format: building a roster, exporting it, importing texts
\* and the exported text
NextRoster ==
    \/ Tick
    \/ \E data \in RosterInputs : Len(knights) < MaxRoster /\ handleAddKnight(data)
    \/ \E id \in KnightIds : handleToggleKnightStatus(id)
    \/ handleExportKnights
    \/ \E data \in RosterTexts \cup {exportedKnightData} :
          handleImportKnights(data) /\ Len(knights') <= MaxRoster

SpecRoster == Init /\ [][NextRoster]_vars

\* the export next to the party machine: Knights that differ in their names go
\* through every status and the roster is exported in between
NextExport ==
    \/ Tick
    \/ \E data \in RosterInputs :
          Len(knights) < MaxExportKnights /\ handleAddKnight(data)
    \/ \E data \in ClientInputs :
          Len(clients) < MaxExportClients /\ handleAddClient(data)
    \/ \E id \in KnightIds : toggleSelection(id, "knight")
    \/ \E id \in ClientIds : toggleSelection(id, "client")
    \/ handleCreateParty /\ partyIdCounter' <= MaxPartyId + 1
    \/ \E partyId \in PartyIds : handleCompleteMission(partyId)
    \/ \E id \in KnightIds : handleToggleKnightStatus(id)
    \/ handleExportKnights

SpecExport == Init /\ [][NextExport]_vars

\* texts pasted into the import modal in the dialog runs: blank ones
DialogTexts == { <<>>, <<" ", "\n">> }

\* every handler over a roster of one Knight and one Client: the edit and the
\* delete dialog can be on screen at once, so an edit can be saved after its
\* entity was deleted
NextDialogs ==
    \/ Tick
    \/ \E data \in KnightInputs :
          Len(knights) < MaxDialogRoster /\ handleAddKnight(data)
    \/ \E data \in ClientInputs :
          Len(clients) < MaxDialogRoster /\ handleAddClient(data)
    \/ \E i \in 1..Len(knights) : opened < MaxDialogs /\ openEdit(knights[i])
    \/ \E i \in 1..Len(clients) : opened < MaxDialogs /\ openEdit(clients[i])
    \/ cancelEdit
    \/ \E updatedData \in EditInputs : handleUpdateItem(updatedData)
    \/ \E id \in KnightIds : opened < MaxDialogs /\ openDelete("knight", id)
    \/ \E id \in ClientIds : opened < MaxDialogs /\ openDelete("client", id)
    \/ cancelDelete
    \/ handleDelete
    \/ \E id \in KnightIds : toggleSelection(id, "knight")
    \/ \E id \in ClientIds : toggleSelection(id, "client")
    \/ handleCreateParty /\ partyIdCounter' <= MaxPartyId + 1
    \/ \E partyId \in PartyIds : handleCompleteMission(partyId)
    \/ \E id \in KnightIds : handleToggleKnightStatus(id)
    \/ handleExportKnights
    \/ \E data \in DialogTexts \cup ImportTexts :
          handleImportKnights(data) /\ Len(knights') <= MaxDialogRoster

SpecDialogs == Init /\ [][NextDialogs]_vars


(* ------------------------------ claims -------------------------------- *)
\* the ids of the Knight / Client snapshots of a party
SnapshotKnightIds(p) == {p.knights[i].id : i \in 1..Len(p.knights)}
SnapshotClientIds(p) == {p.clients[i].id : i \in 1..Len(p.clients)}
SeqToSet(s) == {s[i] : i \in 1..Len(s)}

\* C1: handleCreateParty is all-or-nothing.  With either selection empty it
\* creates no Party and changes no Knight or Client; otherwise it appends exactly
\* one Party to the live collection, every Knight and every Client whose id is
\* selected is in-party afterwards, and both selections are empty afterwards.
C1_FormPartyAllOrNothing ==
    [][handleCreateParty =>
         IF selectedKnightIds = <<>> \/ selectedClientIds = <<>>
         THEN parties' = parties /\ knights' = knights /\ clients' = clients
         ELSE /\ Len(parties') = Len(parties) + 1
              /\ SubSeq(parties', 1, Len(parties)) = parties
              /\ Len(knights') = Len(knights)
              /\ Len(clients') = Len(clients)
              /\ \A i \in 1..Len(knights) :
                    knights[i].id \in SeqToSet(selectedKnightIds)
                        => knights'[i].status = "in-party"
              /\ \A i \in 1..Len(clients) :
                    clients[i].id \in SeqToSet(selectedClientIds)
                        => clients'[i].status = "in-party"
              /\ selectedKnightIds' = <<>>
              /\ selectedClientIds' = <<>>]_vars

\* a party was formed from two selected Knights and a Client: all are in-party,
\* the selections are empty
C1_Witness ==
    /\ Len(parties) = 1
    /\ Len(parties[1].knights) = 2
    /\ Len(parties[1].clients) = 1
    /\ \A i \in 1..Len(knights) : knights[i].status = "in-party"
    /\ \E i \in 1..Len(clients) : clients[i].status = "in-party"
    /\ selectedKnightIds = <<>>
    /\ selectedClientIds = <<>>

\* C2: handleCompleteMission of a live party adds exactly 1 to the relayCount of
\* every roster Knight whose id is in the party's Knight snapshot and sets it
\* waiting, sets every Client whose id is in the Client snapshot completed,
\* removes the party from the live collection and leaves every other Knight,
\* Client and Party as it was.
C2_CompleteMissionEffect ==
    [][\A partyId \in PartyIds :
         (HasId(parties, partyId) /\ handleCompleteMission(partyId)) =>
            LET p == Find(parties, partyId)
            IN  /\ Len(knights') = Len(knights)
                /\ \A i \in 1..Len(knights) :
                      IF knights[i].id \in SnapshotKnightIds(p)
                      THEN knights'[i] =
                              [knights[i] EXCEPT !.relayCount = knights[i].relayCount + 1,
                                                 !.status = "waiting"]
                      ELSE knights'[i] = knights[i]
                /\ Len(clients') = Len(clients)
                /\ \A i \in 1..Len(clients) :
                      IF clients[i].id \in SnapshotClientIds(p)
                      THEN clients'[i] = [clients[i] EXCEPT !.status = "completed"]
                      ELSE clients'[i] = clients[i]
                /\ ~HasId(parties', partyId)
                /\ Len(parties') = Len(parties) - 1
                /\ \A i \in 1..Len(parties) :
                      parties[i].id # partyId => Includes(parties', parties[i])]_vars

\* a mission was completed while another Knight stayed out of it: one Knight is
\* back waiting with a relay counted, the other still has none, the Client is
\* completed and no party is left
C2_Witness ==
    /\ parties = <<>>
    /\ Len(knights) = 2
    /\ knights[1].relayCount = 1
    /\ knights[1].status = "waiting"
    /\ knights[2].relayCount = 0
    /\ \E i \in 1..Len(clients) : clients[i].status = "completed"

\* C3: after handleCompleteMission(partyId) the party is no longer live, and
\* handleCompleteMission of an id that is not in the live collection (a second
\* call with the same id among them) changes nothing at all: no relayCount is
\* counted twice.
C3_CompleteMissionOnce ==
    [][\A partyId \in PartyIds :
         handleCompleteMission(partyId) =>
            /\ ~HasId(parties', partyId)
            /\ ~HasId(parties, partyId) => UNCHANGED vars]_vars

\* party 1 was formed and completed: a second handleCompleteMission(1) finds no
\* party 1, and the Knight's relay has been counted once
C3_Witness ==
    /\ partyIdCounter = 2
    /\ ~HasId(parties, 1)
    /\ \E i \in 1..Len(knights) : knights[i].relayCount = 1
    /\ \E i \in 1..Len(clients) : clients[i].status = "completed"


\* C4: in a step of handleCreateParty, handleCompleteMission or
\* handleToggleKnightStatus a Knight's status changes only waiting -> in-party
\* (formParty), in-party -> waiting (completeMission), waiting <-> off-duty
\* (toggleKnightDuty), and a Client's only waiting -> in-party (formParty) and
\* in-party -> completed (completeMission); an off-duty Knight never becomes
\* in-party directly, and toggling an in-party Knight changes nothing.
C4_StatusEdges ==
    [][(\/ handleCreateParty
        \/ \E partyId \in PartyIds : handleCompleteMission(partyId)
        \/ \E id \in KnightIds : handleToggleKnightStatus(id))
       => /\ Len(knights') = Len(knights)
          /\ Len(clients') = Len(clients)
          /\ \A i \in 1..Len(knights) :
                \/ knights'[i].status = knights[i].status
                \/ /\ knights[i].status = "waiting"
                   /\ knights'[i].status = "in-party"
                   /\ handleCreateParty
                \/ /\ knights[i].status = "in-party"
                   /\ knights'[i].status = "waiting"
                   /\ \E partyId \in PartyIds : handleCompleteMission(partyId)
                \/ /\ knights[i].status \in {"waiting", "off-duty"}
                   /\ knights'[i].status \in {"waiting", "off-duty"}
                   /\ \E id \in KnightIds : handleToggleKnightStatus(id)
          /\ \A i \in 1..Len(clients) :
                \/ clients'[i].status = clients[i].status
                \/ /\ clients[i].status = "waiting"
                   /\ clients'[i].status = "in-party"
                   /\ handleCreateParty
                \/ /\ clients[i].status = "in-party"
                   /\ clients'[i].status = "completed"
                   /\ \E partyId \in PartyIds : handleCompleteMission(partyId)]_vars

\* the live parties whose snapshot holds a Knight / Client of this id
PartiesOfKnight(id) == {j \in 1..Len(parties) : id \in SnapshotKnightIds(parties[j])}
PartiesOfClient(id) == {j \in 1..Len(parties) : id \in SnapshotClientIds(parties[j])}

\* C5: every Knight or Client of the main collections that is in-party has its
\* id in the snapshot of exactly one live Party, and no Knight or Client id is in
\* the snapshots of two live Parties at once.
C5_InPartyExactlyOneParty ==
    /\ \A i \in 1..Len(knights) :
          knights[i].status = "in-party"
              => Cardinality(PartiesOfKnight(knights[i].id)) = 1
    /\ \A i \in 1..Len(clients) :
          clients[i].status = "in-party"
              => Cardinality(PartiesOfClient(clients[i].id)) = 1
    /\ \A j \in 1..Len(parties) :
          /\ \A id \in SnapshotKnightIds(parties[j]) : Cardinality(PartiesOfKnight(id)) = 1
          /\ \A id \in SnapshotClientIds(parties[j]) : Cardinality(PartiesOfClient(id)) = 1

\* the selection of one kind after flipping the membership of exactly this id
Flipped(before, after, id) ==
    /\ (id \in SeqToSet(after)) # (id \in SeqToSet(before))
    /\ SeqToSet(after) \ {id} = SeqToSet(before) \ {id}

\* C6: toggleSelection invoked for a roster entity (its checkbox) that is not
\* waiting leaves both selections unchanged; invoked for a waiting entity it
\* flips the membership of exactly that id in the selection of its kind and
\* changes nothing else.
C6_ToggleSelectionGuard ==
    [][/\ \A i \in 1..Len(knights) :
             toggleSelection(knights[i].id, "knight") =>
                IF knights[i].status # "waiting"
                THEN UNCHANGED <<selectedKnightIds, selectedClientIds>>
                ELSE /\ Flipped(selectedKnightIds, selectedKnightIds', knights[i].id)
                     /\ UNCHANGED <<knights, clients, parties, selectedClientIds,
                                    partyIdCounter>>
       /\ \A i \in 1..Len(clients) :
             toggleSelection(clients[i].id, "client") =>
                IF clients[i].status # "waiting"
                THEN UNCHANGED <<selectedKnightIds, selectedClientIds>>
                ELSE /\ Flipped(selectedClientIds, selectedClientIds', clients[i].id)
                     /\ UNCHANGED <<knights, clients, parties, selectedKnightIds,
                                    partyIdCounter>>]_vars

\* C7: no two Knights of the roster share an id and no two Clients share an id.
C7_UniqueIds ==
    /\ \A i, j \in 1..Len(knights) : knights[i].id = knights[j].id => i = j
    /\ \A i, j \in 1..Len(clients) : clients[i].id = clients[j].id => i = j


\* the texts the import / export runs paste
PastedTexts == RosterTexts \cup {exportedKnightData}

\* the Knights a step appended to the roster
Appended == SubSeq(knights', Len(knights) + 1, Len(knights'))

\* a step of handleImportKnights that pasted a text which is not blank; the
\* clock and the exported text are looked at first, the handler leaves both
ImportStep(data) ==
    /\ clock' = clock
    /\ exportedKnightData' = exportedKnightData
    /\ Trim(data) # <<>>
    /\ handleImportKnights(data)

\* what C8 asks of an accepted line: exactly 4 fields, power and relayCount
\* parse, name and job are not empty once trimmed
ClaimedLineOk(line) ==
    LET parts == Split(line, ":")
    IN  /\ Len(parts) = 4
        /\ Trim(parts[1]) # <<>>
        /\ Trim(parts[2]) # <<>>
        /\ ~ParseInt(parts[3]).isNaN
        /\ ~ParseInt(parts[4]).isNaN

\* C8: handleImportKnights creates a Knight for a line only if the line has
\* exactly 4 fields, power and relayCount parse as integers and name and job are
\* non-empty after trimming; every other line creates none.
C8_AcceptsOnlyWellFormed ==
    [][\A data \in PastedTexts :
         ImportStep(data) =>
            Len(Appended) =
               Cardinality({i \in 1..Len(ImportLines(data)) :
                               ClaimedLineOk(ImportLines(data)[i])})]_vars

\* the lines of a text as a reader counts them: a final line break ends the last
\* line, it does not start another
RawLineCount(data) ==
    LET pieces == Split(data, "\n")
    IN  IF Len(pieces) > 1 /\ pieces[Len(pieces)] = <<>>
        THEN Len(pieces) - 1 ELSE Len(pieces)

\* the k-th of the positions of lines the import accepts
AcceptedAt(lines, k) ==
    LET acc == {i \in 1..Len(lines) : LineAccepted(lines[i])}
    IN  CHOOSE i \in acc : Cardinality({j \in acc : j < i}) = k - 1

\* an import step of a text counted as n lines: the alert reports imported +
\* skipped = n, one off-duty Knight per accepted line is appended in line order
\* with that line's name, job, power and relayCount, and nothing else changes
ImportEffect(data, n) ==
    LET lines == ImportLines(data)
    IN  /\ alertMessage'.kind = "imported"
        /\ alertMessage'.imported + alertMessage'.skipped = n
        /\ alertMessage'.imported = Len(Appended)
        /\ Len(Appended) = Cardinality({i \in 1..Len(lines) : LineAccepted(lines[i])})
        /\ SubSeq(knights', 1, Len(knights)) = knights
        /\ \A k \in 1..Len(Appended) :
              LET parts == Split(lines[AcceptedAt(lines, k)], ":")
              IN  /\ Appended[k].status = "off-duty"
                  /\ Appended[k].name = Trim(parts[1])
                  /\ Appended[k].job = Trim(parts[2])
                  /\ Appended[k].power = ParseInt(parts[3]).value
                  /\ Appended[k].relayCount = ParseInt(parts[4]).value
        /\ UNCHANGED <<clients, parties, selectedKnightIds, selectedClientIds>>

\* C9 as stated: n is the number of lines of the input text.
C9_ImportCountsEveryLine ==
    [][\A data \in PastedTexts :
         ImportStep(data) => ImportEffect(data, RawLineCount(data))]_vars

\* C9 as amended: handleImportKnights never aborts on a malformed line; for a
\* text that has n lines once its leading and trailing white space is trimmed
\* it reports imported + skipped = n, appends one off-duty Knight per accepted
\* line in line order with that line's name, job, power and relayCount, and
\* leaves the earlier Knights, the Clients, the Parties and the selections.
C9_ImportCountsTrimmedLines ==
    [][\A data \in PastedTexts :
         ImportStep(data) => ImportEffect(data, Len(ImportLines(data)))]_vars

\* the import of "b:j:7:0 / BAD / b:j:7:1" went past the malformed line: two
\* Knights imported, one line skipped
C9_Witness ==
    /\ alertMessage = [kind |-> "imported", imported |-> 2, skipped |-> 1]
    /\ Len(knights) >= 2
    /\ knights[Len(knights) - 1].status = "off-duty"
    /\ knights[Len(knights) - 1].relayCount = 0
    /\ knights[Len(knights)].status = "off-duty"
    /\ knights[Len(knights)].relayCount = 1

NoColon(s) == \A i \in 1..Len(s) : s[i] # ":"

\* importing the export of a roster: no line skipped, one off-duty Knight per
\* exported Knight, in export order, with its name, job, power and relayCount
RoundTrip(ks) ==
    LET text == ExportText(ks)
        res == ImportFrom(ImportLines(text), 1, clock)
        sorted == SortedBy(ks)
    IN  /\ Trim(text) # <<>>
        /\ res.invalidLines = 0
        /\ Len(res.newKnights) = Len(ks)
        /\ \A i \in 1..Len(res.newKnights) :
              /\ res.newKnights[i].name = sorted[i].name
              /\ res.newKnights[i].job = sorted[i].job
              /\ res.newKnights[i].power = sorted[i].power
              /\ res.newKnights[i].relayCount = sorted[i].relayCount
              /\ res.newKnights[i].status = "off-duty"

\* C10 as stated: the round trip of every non-empty roster without ':' in its
\* names and jobs.
C10_RoundTrip ==
    (/\ knights # <<>>
     /\ \A i \in 1..Len(knights) : NoColon(knights[i].name) /\ NoColon(knights[i].job))
        => RoundTrip(knights)

\* a name or job the import reads back as it is: not empty and no white space
\* at its ends
ReadsBack(s) == s # <<>> /\ Trim(s) = s

\* C10 as amended: for every non-empty roster whose names and jobs contain no
\* ':', are not empty and carry no white space at their ends, importing the
\* exported text skips no line and creates, in export order, one off-duty Knight
\* per exported Knight with the same name, job, power and relayCount.
C10_RoundTripTrimmed ==
    (/\ knights # <<>>
     /\ \A i \in 1..Len(knights) :
           /\ NoColon(knights[i].name) /\ NoColon(knights[i].job)
           /\ ReadsBack(knights[i].name) /\ ReadsBack(knights[i].job))
        => RoundTrip(knights)

\* a Knight added through the form was exported and the exported text imported:
\* the roster holds the Knight and its off-duty copy
C10_Witness ==
    /\ Len(knights) = 2
    /\ knights[1].name = <<"a">>
    /\ knights[1].power = 1000
    /\ exportedKnightData = ExportText(<<knights[1]>>)
    /\ alertMessage = [kind |-> "imported", imported |-> 1, skipped |-> 0]
    /\ knights[2].name = knights[1].name
    /\ knights[2].job = knights[1].job
    /\ knights[2].power = knights[1].power
    /\ knights[2].relayCount = knights[1].relayCount
    /\ knights[2].status = "off-duty"


\* the roster state: what a rejected command must leave as it was
rosterState ==
    <<knights, clients, parties, partyIdCounter, selectedKnightIds, selectedClientIds>>

\* the collection an edit or a delete is aimed at no longer holds its id
EditTargetGone ==
    /\ itemToEdit # Null
    /\ IF "relayCount" \in DOMAIN itemToEdit
       THEN ~HasId(knights, itemToEdit.id) ELSE ~HasId(clients, itemToEdit.id)
DeleteTargetGone ==
    /\ itemToDelete # Null
    /\ IF itemToDelete.type = "knight"
       THEN ~HasId(knights, itemToDelete.id) ELSE ~HasId(clients, itemToDelete.id)

\* C11: every rejected command leaves knights, clients, parties, partyIdCounter
\* and both selections as they were: handleCreateParty with an empty selection
\* on either side, handleCompleteMission / handleUpdateItem / handleDelete aimed
\* at an id that does not exist, and handleImportKnights of a blank text.
C11_RejectedLeavesState ==
    [][/\ (/\ Len(selectedKnightIds) = 0 \/ Len(selectedClientIds) = 0
           /\ handleCreateParty)
          => UNCHANGED rosterState
       /\ \A partyId \in PartyIds :
             (~HasId(parties, partyId) /\ handleCompleteMission(partyId))
                => UNCHANGED rosterState
       /\ \A updatedData \in EditInputs :
             (EditTargetGone /\ handleUpdateItem(updatedData))
                => UNCHANGED rosterState
       /\ (DeleteTargetGone /\ handleDelete) => UNCHANGED rosterState
       /\ \A data \in DialogTexts :
             (Trim(data) = <<>> /\ handleImportKnights(data))
                => UNCHANGED rosterState]_vars

\* handleCreateParty was rejected for an empty selection while the edit dialog
\* is open on a Knight that has been deleted: saving it is the rejected update
C11_Witness ==
    /\ alertMessage.kind = "selectBoth"
    /\ itemToEdit # Null
    /\ "relayCount" \in DOMAIN itemToEdit
    /\ ~HasId(knights, itemToEdit.id)
    /\ parties = <<>>
    /\ partyIdCounter = 1


\* C12: handleUpdateItem replaces only name, job, power and notes of the entity
\* with the edited id: its status, id and (for a Knight) relayCount after the
\* update are what they were immediately before it, whatever ran since the edit
\* was opened; every other entity is unchanged, and an update whose id is no
\* longer in the collection changes nothing.
C12_UpdateKeepsStatus ==
    [][\A updatedData \in EditInputs :
          handleUpdateItem(updatedData) =>
             /\ Len(knights') = Len(knights)
             /\ Len(clients') = Len(clients)
             /\ \A i \in 1..Len(knights) :
                   IF "relayCount" \in DOMAIN itemToEdit /\ knights[i].id = itemToEdit.id
                   THEN /\ knights'[i].id = knights[i].id
                        /\ knights'[i].status = knights[i].status
                        /\ knights'[i].relayCount = knights[i].relayCount
                   ELSE knights'[i] = knights[i]
             /\ \A i \in 1..Len(clients) :
                   IF "relayCount" \notin DOMAIN itemToEdit /\ clients[i].id = itemToEdit.id
                   THEN /\ clients'[i].id = clients[i].id
                        /\ clients'[i].status = clients[i].status
                   ELSE clients'[i] = clients[i]
             /\ UNCHANGED <<parties, partyIdCounter, selectedKnightIds,
                            selectedClientIds>>]_vars


\* a collection after the removal of the id: nothing of that id is left, and the
\* entities of every other id are there, unchanged and in their order
Removed(before, after, id) ==
    /\ ~HasId(after, id)
    /\ after = SelectSeq(before, LAMBDA e : e.id # id)

\* C13: handleDelete removes the entity of the given id from its collection
\* whatever its status, leaves every other Knight and Client unchanged, and
\* does not cascade: every live Party, one whose snapshot lists the deleted id
\* included, is unchanged.
C13_DeleteNoCascade ==
    [][(itemToDelete # Null /\ handleDelete) =>
          /\ IF itemToDelete.type = "knight"
             THEN Removed(knights, knights', itemToDelete.id) /\ clients' = clients
             ELSE Removed(clients, clients', itemToDelete.id) /\ knights' = knights
          /\ parties' = parties
          /\ UNCHANGED <<partyIdCounter, selectedKnightIds, selectedClientIds>>]_vars

\* a Knight was deleted while in a party: the live Party still lists its id
C13_Witness ==
    /\ itemToDelete = Null
    /\ opened = 1
    /\ parties # <<>>
    /\ \E id \in SnapshotKnightIds(parties[1]) : ~HasId(knights, id)


\* C14: a Party enters the live collection only through handleCreateParty and
\* leaves it only through handleCompleteMission of its own id; between the two
\* its id and its Knight and Client snapshots never change, whatever handler
\* runs.
C14_PartyImmutable ==
    [][/\ \A j \in 1..Len(parties) :
             \/ \E k \in 1..Len(parties') : parties'[k] = parties[j]
             \/ handleCompleteMission(parties[j].id)
       /\ \A k \in 1..Len(parties') :
             \/ \E j \in 1..Len(parties) : parties[j] = parties'[k]
             \/ /\ handleCreateParty
                /\ Len(selectedKnightIds) > 0 /\ Len(selectedClientIds) > 0
                /\ k = Len(parties')
                /\ Len(parties') = Len(parties) + 1]_vars

\* two Parties are live at once and the roster has been exported since
C14_Witness ==
    /\ Len(parties) = 2
    /\ exportedKnightData # <<>>


\* C15: Clients are one-shot.  A completed Client that stays in the collection
\* stays completed in every step; no completed Client has its id in the Client
\* selection; and handleCreateParty snapshots only Clients that are waiting, so
\* none that an earlier Party already held.
C15_ClientsOneShot ==
    [][/\ Len(clients') = Len(clients) =>
             \A i \in 1..Len(clients) :
                (clients[i].status = "completed" /\ clients'[i].id = clients[i].id)
                   => clients'[i].status = "completed"
       /\ \A i \in 1..Len(clients') :
             clients'[i].status = "completed"
                => ~Includes(selectedClientIds', clients'[i].id)
       /\ (handleCreateParty /\ Len(parties') = Len(parties) + 1) =>
             \A i \in 1..Len(clients) :
                Includes(selectedClientIds, clients[i].id)
                   => clients[i].status = "waiting"]_vars


\* a step of handleCreateParty with both selections non-empty
FormedParty ==
    /\ Len(selectedKnightIds) > 0
    /\ Len(selectedClientIds) > 0
    /\ handleCreateParty

\* C16: partyIdCounter starts at 1 and never decreases; a handleCreateParty that
\* forms a Party gives it the current counter value and adds exactly 1 to the
\* counter, every other step leaves the counter; after every step the live
\* Party ids are distinct and each is smaller than the counter, so the id of a
\* completed Party is never given again.
C16_PartyIdCounter ==
    /\ partyIdCounter = 1
    /\ [][/\ IF FormedParty
             THEN /\ partyIdCounter' = partyIdCounter + 1
                  /\ parties'[Len(parties')].id = partyIdCounter
             ELSE partyIdCounter' = partyIdCounter
          /\ \A j, k \in 1..Len(parties') :
                parties'[j].id = parties'[k].id => j = k
          /\ \A j \in 1..Len(parties') : parties'[j].id < partyIdCounter']_vars

\* Party 1 was completed and the Party formed after it got id 2
C16_Witness ==
    /\ partyIdCounter = 3
    /\ Len(parties) = 1
    /\ parties[1].id = 2


\* the rank the spec gives a status in the display order
DisplayRank(status) ==
    IF status = "waiting" THEN 1 ELSE IF status = "in-party" THEN 2 ELSE 3

\* p lists the positions of ks in display order: every position once, ranks
\* ascending, roster order among equal ranks
InDisplayOrder(ks, p) ==
    /\ \A i, j \in 1..Len(ks) : p[i] = p[j] => i = j
    /\ \A i, j \in 1..Len(ks) :
          i < j => \/ DisplayRank(ks[p[i]].status) < DisplayRank(ks[p[j]].status)
                   \/ /\ DisplayRank(ks[p[i]].status) = DisplayRank(ks[p[j]].status)
                      /\ p[i] < p[j]

\* line reads name:job:power:relayCount with the stored values of k
LineOf(line, k) ==
    LET fields == Split(line, ":")
    IN  /\ Len(fields) = 4
        /\ fields[1] = k.name
        /\ fields[2] = k.job
        /\ ParseInt(fields[3]) = Num(k.power)
        /\ ParseInt(fields[4]) = Num(k.relayCount)

\* text is the export of ks: one line per Knight, in display order
ExportOf(ks, text) ==
    IF ks = <<>> THEN text = <<>>
    ELSE LET lines == Split(text, "\n")
         IN  /\ Len(lines) = Len(ks)
             /\ \E p \in [1..Len(ks) -> 1..Len(ks)] :
                   /\ InDisplayOrder(ks, p)
                   /\ \A i \in 1..Len(ks) : LineOf(lines[i], ks[p[i]])

\* C17: handleExportKnights emits one line name:job:power:relayCount per Knight
\* of the roster with the stored values, ordered by status rank waiting <
\* in-party < off-duty with roster order kept among equal ranks, and changes no
\* Knight, Client, Party, counter or selection.
C17_ExportInDisplayOrder ==
    [][handleExportKnights =>
          /\ ExportOf(knights, exportedKnightData')
          /\ UNCHANGED <<knights, clients, parties, partyIdCounter,
                         selectedKnightIds, selectedClientIds>>]_vars

\* a roster of an in-party, an off-duty and a waiting Knight, in this order, has
\* been exported: the waiting Knight's line is first, the off-duty one's last
C17_Witness ==
    /\ Len(knights) = 3
    /\ knights[1].status = "in-party"
    /\ knights[2].status = "off-duty"
    /\ knights[3].status = "waiting"
    /\ knights[3].name # knights[1].name
    /\ Len(parties) = 1
    /\ ExportOf(knights, exportedKnightData)
    /\ LineOf(Split(exportedKnightData, "\n")[1], knights[3])
    /\ LineOf(Split(exportedKnightData, "\n")[3], knights[2])


\* C18: after every step every Knight's relayCount is a non-negative integer,
\* and in a step that keeps the roster's Knights in place no relayCount
\* decreases: it changes only by +1, in a handleCompleteMission.
C18_RelayCountNonNegative ==
    [][/\ \A i \in 1..Len(knights') : knights'[i].relayCount >= 0
       /\ Len(knights') >= Len(knights) =>
             \A i \in 1..Len(knights) :
                knights'[i].id = knights[i].id =>
                   \/ knights'[i].relayCount = knights[i].relayCount
                   \/ /\ knights'[i].relayCount = knights[i].relayCount + 1
                      /\ \E partyId \in PartyIds : handleCompleteMission(partyId)]_vars


\* C19: every id in selectedKnightIds is the id of a Knight of the roster whose
\* status is waiting, and every id in selectedClientIds is the id of a Client of
\* the roster whose status is waiting.
C19_SelectionIsWaiting ==
    /\ \A n \in 1..Len(selectedKnightIds) :
          \E i \in 1..Len(knights) :
             knights[i].id = selectedKnightIds[n] /\ knights[i].status = "waiting"
    /\ \A n \in 1..Len(selectedClientIds) :
          \E i \in 1..Len(clients) :
             clients[i].id = selectedClientIds[n] /\ clients[i].status = "waiting"

\* C20: after every step every live Party has at least one Knight snapshot and
\* at least one Client snapshot, and the snapshots of a Party that
\* handleCreateParty forms are exactly the entities of the selected ids: every
\* selected id has its snapshot.
C20_PartyHasBothSides ==
    [][/\ \A j \in 1..Len(parties') :
             Len(parties'[j].knights) >= 1 /\ Len(parties'[j].clients) >= 1
       /\ FormedParty =>
             /\ SnapshotKnightIds(parties'[Len(parties')]) = SeqToSet(selectedKnightIds)
             /\ SnapshotClientIds(parties'[Len(parties')]) = SeqToSet(selectedClientIds)]_vars

====
